---- MODULE Spec2Model ----
(***************************************************************************)
(* Interactive Location Builder: the location collection held by App, its  *)
(* mirror under the localStorage key 'locations', the schema validator     *)
(* that gates every bulk load, and the handlers that change them.          *)
(*                                                                         *)
(* JavaScript values are modelled structurally.  A primitive is a record   *)
(* [ty, s]; an array-valued property is a record [arr, prim, items];       *)
(* an element of a collection is a record with one field per property of   *)
(* Location, and a missing property holds Undef.  JSON text is modelled by *)
(* its document tree, so that JSON.stringify and JSON.parse are the        *)
(* conversions JavaScript performs and not the identity.                   *)
(***************************************************************************)
EXTENDS Integers, Sequences, FiniteSets, TLC

(***************************************************************************)
(* Bounds of the model.                                                    *)
(***************************************************************************)
MaxLocs == 2
MaxClock == 1
MaxPending == 1
MaxElems == 2
MaxChanged == 1
MaxReorderLen == 4
MaxTimers == 3

(***************************************************************************)
(* Primitive JavaScript values.                                            *)
(***************************************************************************)
Undef == [ty |-> "undefined", s |-> ""]
Null == [ty |-> "null", s |-> ""]
Str(x) == [ty |-> "string", s |-> x]
\* A number, held as its decimal text.
Num(x) == [ty |-> "number", s |-> ToString(x)]
Bool(b) == [ty |-> "boolean", s |-> IF b THEN "true" ELSE "false"]
Obj == [ty |-> "object", s |-> "{}"]
\* The number a JSON literal beyond the double range parses to.
Infinity == [ty |-> "number", s |-> "Infinity"]
\* The JSON number literal 1e999, as it stands in a text.
HugeLiteral == [ty |-> "number", s |-> "1e999"]

typeof(v) == IF v.ty = "null" THEN "object" ELSE v.ty

\* JavaScript truthiness of a primitive (the `x &&` and `!x` tests).
Truthy(v) ==
    CASE v.ty = "undefined" -> FALSE
      [] v.ty = "null" -> FALSE
      [] v.ty = "string" -> v.s # ""
      [] v.ty = "number" -> v.s # "0"
      [] v.ty = "boolean" -> v.s = "true"
      [] OTHER -> TRUE

(***************************************************************************)
(* Structured values: a property that may hold an array.                   *)
(***************************************************************************)
Arr(items) == [arr |-> TRUE, prim |-> Undef, items |-> items]
NotArr(p) == [arr |-> FALSE, prim |-> p, items |-> << >>]
IsUndefined(sv) == ~sv.arr /\ sv.prim = Undef
IsNull(sv) == ~sv.arr /\ sv.prim = Null

\* A Question object (types.ts), or a non-object array entry.
Question(id, text, type, options, answer) ==
    [kind |-> "object", id |-> id, text |-> text, type |-> type,
     options |-> options, answer |-> answer]
NullQuestion ==
    [kind |-> "null", id |-> Undef, text |-> Undef, type |-> Undef,
     options |-> NotArr(Undef), answer |-> Undef]

\* A Location object (types.ts), or a non-object array entry.
Location(id, title, country, description, image, video, audio, coordinates, questions, block_navigation) ==
    [kind |-> "object", id |-> id, title |-> title, country |-> country,
     description |-> description, image |-> image, video |-> video,
     audio |-> audio, coordinates |-> coordinates, questions |-> questions,
     block_navigation |-> block_navigation]
NonObject(k) ==
    [kind |-> k, id |-> Undef, title |-> Undef, country |-> Undef,
     description |-> Undef, image |-> Undef, video |-> Undef, audio |-> Undef,
     coordinates |-> NotArr(Undef), questions |-> NotArr(Undef),
     block_navigation |-> Undef]

QuestionTypes == {"short_answer", "true_false", "multiple_choice"}

(***************************************************************************)
(* validateLocationsData.  The result is [valid, list]: valid = FALSE is   *)
(* the null the function returns.                                          *)
(***************************************************************************)
Invalid == [valid |-> FALSE, list |-> << >>]
Valid(list) == [valid |-> TRUE, list |-> list]

EveryString(items) == \A i \in 1..Len(items) : typeof(items[i]) = "string"

validQuestion(q) ==
    /\ q.kind = "object"
    /\ typeof(q.id) = "string"
    /\ typeof(q.text) = "string"
    /\ typeof(q.type) = "string" /\ q.type.s \in QuestionTypes
    /\ typeof(q.answer) = "string"
    /\ (IsUndefined(q.options) \/ (q.options.arr /\ EveryString(q.options.items)))

\* validLocation with the media checks written `== null`, which undefined passes.
validLocationLooseMedia(loc) ==
    /\ loc.kind = "object"
    /\ typeof(loc.id) = "string"
    /\ typeof(loc.title) = "string"
    /\ typeof(loc.country) = "string"
    /\ typeof(loc.description) = "string"
    /\ typeof(loc.image) = "string"
    /\ (loc.video \in {Null, Undef} \/ typeof(loc.video) = "string")
    /\ (loc.audio \in {Null, Undef} \/ typeof(loc.audio) = "string")
    /\ loc.coordinates.arr
    /\ Len(loc.coordinates.items) = 2
    /\ typeof(loc.coordinates.items[1]) = "number"
    /\ typeof(loc.coordinates.items[2]) = "number"
    /\ (IsUndefined(loc.questions) \/
            (/\ loc.questions.arr
             /\ \A i \in 1..Len(loc.questions.items) :
                    validQuestion(loc.questions.items[i])))
    /\ (loc.block_navigation = Undef \/ typeof(loc.block_navigation) = "boolean")

validLocation(loc) ==
    /\ loc.kind = "object"
    /\ typeof(loc.id) = "string"
    /\ typeof(loc.title) = "string"
    /\ typeof(loc.country) = "string"
    /\ typeof(loc.description) = "string"
    /\ typeof(loc.image) = "string"
    /\ (loc.video = Null \/ typeof(loc.video) = "string")
    /\ (loc.audio = Null \/ typeof(loc.audio) = "string")
    /\ loc.coordinates.arr
    /\ Len(loc.coordinates.items) = 2
    /\ typeof(loc.coordinates.items[1]) = "number"
    /\ typeof(loc.coordinates.items[2]) = "number"
    /\ (IsUndefined(loc.questions) \/
            (/\ loc.questions.arr
             /\ \A i \in 1..Len(loc.questions.items) :
                    validQuestion(loc.questions.items[i])))
    /\ (loc.block_navigation = Undef \/ typeof(loc.block_navigation) = "boolean")

\* validateLocationsData without the comparison of lengths.
validateLocationsDataPartial(data) ==
    IF ~data.arr THEN Invalid
    ELSE Valid(SelectSeq(data.items, validLocation))

validateLocationsData(data) ==
    IF ~data.arr THEN Invalid
    ELSE LET validLocations == SelectSeq(data.items, validLocation)
         IN  IF Len(validLocations) # Len(data.items) THEN Invalid
             ELSE Valid(validLocations)

(***************************************************************************)
(* JSON.  A text is [syntax, doc]: syntax "ok" for a well-formed document, *)
(* "bad" for a text JSON.parse throws on, "none" for a key that is not in  *)
(* the store (getItem returns null).                                       *)
(***************************************************************************)
Text(doc) == [syntax |-> "ok", doc |-> doc]
BadText == [syntax |-> "bad", doc |-> NotArr(Undef)]
NoItem == [syntax |-> "none", doc |-> NotArr(Undef)]

MapSeq(s, F(_)) == [i \in 1..Len(s) |-> F(s[i])]

\* A property value: a non-finite number is written as null (an undefined
\* property is left out, which is what Undef stands for in a document).
StringifyProp(v) == IF v = Infinity THEN Null ELSE v
\* An array entry: undefined and non-finite numbers are written as null.
StringifyEntry(v) == IF v = Undef \/ v = Infinity THEN Null ELSE v
StringifyArray(sv) == IF sv.arr THEN Arr(MapSeq(sv.items, StringifyEntry)) ELSE NotArr(StringifyProp(sv.prim))

StringifyQuestion(q) ==
    IF q.kind # "object" THEN NullQuestion
    ELSE Question(StringifyProp(q.id), StringifyProp(q.text), StringifyProp(q.type), StringifyArray(q.options), StringifyProp(q.answer))

StringifyQuestions(sv) == IF sv.arr THEN Arr(MapSeq(sv.items, StringifyQuestion)) ELSE NotArr(StringifyProp(sv.prim))

StringifyLocation(loc) ==
    IF loc.kind # "object" THEN NonObject("null")
    ELSE Location(StringifyProp(loc.id), StringifyProp(loc.title), StringifyProp(loc.country),
                  StringifyProp(loc.description), StringifyProp(loc.image), StringifyProp(loc.video),
                  StringifyProp(loc.audio), StringifyArray(loc.coordinates),
                  StringifyQuestions(loc.questions), StringifyProp(loc.block_navigation))

\* JSON.stringify(locations)
JSONstringify(list) == Text(Arr(MapSeq(list, StringifyLocation)))

\* A number literal beyond the double range becomes Infinity.
ParsePrim(v) == IF v = HugeLiteral THEN Infinity ELSE v
ParseArray(sv) == IF sv.arr THEN Arr(MapSeq(sv.items, ParsePrim)) ELSE NotArr(ParsePrim(sv.prim))

ParseQuestion(q) ==
    IF q.kind # "object" THEN q
    ELSE Question(ParsePrim(q.id), ParsePrim(q.text), ParsePrim(q.type), ParseArray(q.options), ParsePrim(q.answer))

ParseQuestions(sv) == IF sv.arr THEN Arr(MapSeq(sv.items, ParseQuestion)) ELSE NotArr(ParsePrim(sv.prim))

ParseLocation(loc) ==
    IF loc.kind # "object" THEN loc
    ELSE Location(ParsePrim(loc.id), ParsePrim(loc.title), ParsePrim(loc.country),
                  ParsePrim(loc.description), ParsePrim(loc.image), ParsePrim(loc.video),
                  ParsePrim(loc.audio), ParseArray(loc.coordinates),
                  ParseQuestions(loc.questions), ParsePrim(loc.block_navigation))

\* JSON.parse(text): [threw, value]
JSONparse(text) ==
    IF text.syntax # "ok" THEN [threw |-> TRUE, value |-> NotArr(Undef)]
    ELSE [threw |-> FALSE,
          value |-> IF text.doc.arr THEN Arr(MapSeq(text.doc.items, ParseLocation))
                    ELSE NotArr(ParsePrim(text.doc.prim))]

(***************************************************************************)
(* Launch parameters (utils/urlParams.ts).                                 *)
(***************************************************************************)
URLParams(userId, token, artifactId, baseUrl) == [userId |-> userId, token |-> token, artifactId |-> artifactId, baseUrl |-> baseUrl]

\* The four keys of window.location.search; params.get gives null for an absent key.
Query(userId, token, artifact_id, base_url) == [userId |-> userId, token |-> token, artifact_id |-> artifact_id, base_url |-> base_url]

\* baseUrl.endsWith('/')
endsWithSlash(str) == Len(str) > 0 /\ SubSeq(str, Len(str), Len(str)) = "/"

getURLParams(query) ==
    LET baseUrl == IF Truthy(query.base_url) /\ endsWithSlash(query.base_url.s)
                   THEN Str(SubSeq(query.base_url.s, 1, Len(query.base_url.s) - 1))
                   ELSE query.base_url
    IN  URLParams(query.userId, query.token, query.artifact_id, baseUrl)

\* hasRequiredParams without its test of baseUrl.
hasRequiredParamsButBase(params) == Truthy(params.userId) /\ Truthy(params.token) /\ Truthy(params.artifactId)

hasRequiredParams(params) == Truthy(params.userId) /\ Truthy(params.token) /\ Truthy(params.artifactId) /\ Truthy(params.baseUrl)

(***************************************************************************)
(* State.                                                                  *)
(***************************************************************************)
VARIABLES
    locations,          \* App: useState<Location[]>
    stored,             \* localStorage item 'locations'
    selectedCoords,     \* App: LatLngTuple | null
    selectedCountry,    \* App: string | null
    editingLocation,    \* App: Location | null, << >> for null
    isGeocoding,        \* App: boolean
    pending,            \* reverse-geocoding requests in flight
    isLoadingArtifact,  \* App: boolean
    phase,              \* "mount", "fetching" (remote GET in flight), "ready"
    lastWrite,          \* what the last step wrote to the collection or its stored copy: the handler (and branch), "none" if nothing
    vIn,                \* validator harness: the value handed to validateLocationsData
    vOut,               \* validator harness: what it returned
    rOld,               \* the oldIndex of the last handleReorderLocations call
    rNew,               \* the newIndex of the last handleReorderLocations call
    searchQuery,        \* LocationsList: useState('')
    isSearchVisible,    \* LocationsList: useState(false)
    mapSearch,          \* MapSearchControl: its useState values, debounceTimeoutRef, the timers and fetches pending
    form,               \* LocationForm: useState<Question[]>, and which of its objects are the edited record's own
    io                  \* call recorder: the handler the last step ran, its input, the notice it showed, the remote requests it issued

vars == <<locations, stored, selectedCoords, selectedCountry, editingLocation, isGeocoding, pending, isLoadingArtifact, phase, lastWrite, vIn, vOut, rOld, rNew, searchQuery, isSearchVisible, mapSearch, form, io>>

appVars == <<locations, stored, selectedCoords, selectedCountry, editingLocation, isGeocoding, pending, isLoadingArtifact, phase>>
harnessVars == <<vIn, vOut>>
reorderArgs == <<rOld, rNew>>
listVars == <<searchQuery, isSearchVisible>>
componentVars == <<mapSearch>>
formVars == <<form>>

\* No handler call has been recorded.
Call(op, arg, notice, requests) == [op |-> op, arg |-> arg, notice |-> notice, requests |-> requests]
NoCall == Call("none", "", "", 0)

NoCoords == NotArr(Null)
LatLng(lat, lng) == Arr(<<Num(lat), Num(lng)>>)

(***************************************************************************)
(* The inputs the environment supplies.                                    *)
(***************************************************************************)
\* Places the user clicks on the map, and the country Nominatim reports there.
Amman == LatLng(31, 35)
Paris == LatLng(48, 2)
MapClicks == {Amman}
CountryAt(coords) == IF coords = Amman THEN "Jordan" ELSE "France"

\* A quiz question as the form builds it.
QuizQuestion == Question(Str("q_1"), Str("Capital?"), Str("multiple_choice"), Arr(<<Str("Amman"), Str("Aqaba")>>), Str("Amman"))

\* Records as they stand in a JSON text.
FileLoc(id, country, coords) == Location(Str(id), Str("Petra"), Str(country), Str("d"), Str(""), Null, Null, coords, NotArr(Undef), Undef)
LocA == FileLoc("a", "Jordan", Amman)
LocB == [FileLoc("b", "France", Paris) EXCEPT !.video = Str("v"), !.questions = Arr(<<QuizQuestion>>), !.block_navigation = Bool(TRUE)]
LocNoCoordinates == [LocA EXCEPT !.id = Str("n"), !.coordinates = NotArr(Undef)]
LocHuge == FileLoc("h", "Jordan", Arr(<<HugeLiteral, Num(35)>>))

JsonFile(items) == Text(Arr(items))

\* Files the user may pick for import.
ImportFiles == {BadText, JsonFile(<< >>), JsonFile(<<LocA, LocB>>), JsonFile(<<LocA, LocA>>),
                JsonFile(<<LocB, LocNoCoordinates>>), JsonFile(<<LocHuge>>)}

\* A declined confirmation returns before the text is parsed, so one file
\* stands for all of them there.
ImportChoices(confirmed) == IF confirmed THEN ImportFiles ELSE {BadText}

\* What the 'locations' key may hold when the page opens.
StoredAtOpen == {NoItem, BadText, JsonFile(<<LocA, LocNoCoordinates>>), JsonFile(<<LocA>>)}

\* Outcomes of the remote GET: the fetch rejects, a non-ok status, an ok body
\* without artifact_data, an ok body whose artifact_data is the given text.
Response(kind, data) == [kind |-> kind, data |-> data]
Responses == {Response("network_error", NoItem), Response("http_error", NoItem), Response("no_artifact_data", NoItem),
              Response("artifact_data", BadText), Response("artifact_data", JsonFile(<<LocNoCoordinates>>)),
              Response("artifact_data", JsonFile(<<LocB>>))}

\* Query strings the page may be opened with: all four keys, one key absent
\* or empty, a base address with a trailing slash, a base address of "/".
AllParams == Query(Str("u"), Str("t"), Str("7"), Str("https://api"))
QueryKeys == {"userId", "token", "artifact_id", "base_url"}
Queries == {AllParams, [AllParams EXCEPT !.base_url = Str("https://api/")], [AllParams EXCEPT !.base_url = Str("/")]}
               \cup {[AllParams EXCEPT ![k] = v] : k \in QueryKeys, v \in {Null, Str("")}}
URLParamChoices == {getURLParams(query) : query \in Queries}

\* What the form hands to onSave.
FormData(title, description, video, questions, block_navigation) ==
    [title |-> title, description |-> description, image |-> "", video |-> video, audio |-> "",
     questions |-> questions, block_navigation |-> block_navigation]
FormInputs == {FormData("Petra", "d", "v", <<QuizQuestion>>, TRUE), FormData("", "d", "", << >>, FALSE), FormData("Petra", "", "", << >>, FALSE)}

\* new Date().toISOString() at clock value t
toISOString(t) == "2025-01-01T00:00:00.00" \o ToString(t) \o "Z"

(***************************************************************************)
(* Array helpers, as the JavaScript built-ins compute them (0-based).      *)
(***************************************************************************)
Min2(a, b) == IF a < b THEN a ELSE b
Max2(a, b) == IF a > b THEN a ELSE b

\* Array.prototype.splice's clamping of its start argument.
SpliceStart(len, start) == IF start < 0 THEN Max2(len + start, 0) ELSE Min2(start, len)

\* prev.filter(loc => loc.id !== id)
FilterOutId(list, id) == SelectSeq(list, LAMBDA loc : loc.id # id)

\* prev.map(loc => loc.id === id ? updated : loc)
MapReplaceId(list, id, updated) == [i \in 1..Len(list) |-> IF list[i].id = id THEN updated ELSE list[i]]

\* locations.findIndex(loc => loc.id === id)
findIndex(list, id) == IF \E i \in 1..Len(list) : list[i].id = id THEN (CHOOSE i \in 1..Len(list) : list[i].id = id /\ \A j \in 1..(i - 1) : list[j].id # id) - 1 ELSE -1

\* handleReorderLocations exchanging the two positions instead of moving one item.
handleReorderSwap(prev, oldIndex, newIndex) ==
    IF oldIndex \in 0..(Len(prev) - 1) /\ newIndex \in 0..(Len(prev) - 1)
    THEN [prev EXCEPT ![oldIndex + 1] = prev[newIndex + 1], ![newIndex + 1] = prev[oldIndex + 1]]
    ELSE prev

\* items.splice(oldIndex, 1) then items.splice(newIndex, 0, reorderedItem)
handleReorderLocations(prev, oldIndex, newIndex) ==
    LET len == Len(prev)
        from == SpliceStart(len, oldIndex)
        removed == IF from < len THEN <<prev[from + 1]>> ELSE << >>
        items == IF from < len THEN SubSeq(prev, 1, from) \o SubSeq(prev, from + 2, len) ELSE prev
        reorderedItem == IF removed = << >> THEN NonObject("undefined") ELSE removed[1]
        to == SpliceStart(Len(items), newIndex)
    IN  SubSeq(items, 1, to) \o <<reorderedItem>> \o SubSeq(items, to + 1, Len(items))

(***************************************************************************)
(* Startup: the effect that loads the collection (fetchArtifactData).      *)
(***************************************************************************)
\* LocalLoad without the removeItem of the schema-invalid value.
LocalLoadKeepsInvalid(mem, item) ==
    IF item.syntax = "none" THEN [locations |-> mem, stored |-> item, outcome |-> "startup:no_data"]
    ELSE LET parsedData == JSONparse(item)
         IN  IF parsedData.threw THEN [locations |-> mem, stored |-> item, outcome |-> "startup:parse_error"]
             ELSE LET validatedLocations == validateLocationsData(parsedData.value)
                  IN  IF validatedLocations.valid
                      THEN [locations |-> validatedLocations.list, stored |-> item, outcome |-> "startup:loaded"]
                      ELSE [locations |-> mem, stored |-> item, outcome |-> "startup:invalid"]

\* The localStorage branch: what it leaves in memory and in the store.
LocalLoad(mem, item) ==
    IF item.syntax = "none" THEN [locations |-> mem, stored |-> item, outcome |-> "startup:no_data"]
    ELSE LET parsedData == JSONparse(item)
         IN  IF parsedData.threw THEN [locations |-> mem, stored |-> item, outcome |-> "startup:parse_error"]
             ELSE LET validatedLocations == validateLocationsData(parsedData.value)
                  IN  IF validatedLocations.valid
                      THEN [locations |-> validatedLocations.list, stored |-> item, outcome |-> "startup:loaded"]
                      ELSE [locations |-> mem, stored |-> NoItem, outcome |-> "startup:invalid"]

\* The API branch without the call of validateLocationsData.
RemoteLoadUnvalidated(response) ==
    IF response.kind # "artifact_data" THEN Invalid
    ELSE LET parsedData == JSONparse(response.data)
         IN  IF parsedData.threw \/ ~parsedData.value.arr THEN Invalid ELSE Valid(parsedData.value.items)

\* The API branch: the validated list the response carries, or Invalid.
RemoteLoad(response) ==
    IF response.kind # "artifact_data" THEN Invalid
    ELSE LET parsedData == JSONparse(response.data)
         IN  IF parsedData.threw THEN Invalid ELSE validateLocationsData(parsedData.value)

\* urlParams is what getURLParams() reads from the page's query string.
StartupLocal(urlParams) ==
    /\ phase = "mount"
    /\ ~hasRequiredParams(urlParams)
    /\ LET r == LocalLoad(locations, stored)
       IN  /\ locations' = r.locations
           /\ stored' = r.stored
           /\ lastWrite' = r.outcome
    /\ phase' = "ready"
    /\ UNCHANGED <<selectedCoords, selectedCountry, editingLocation, isGeocoding, pending, isLoadingArtifact, harnessVars, reorderArgs, listVars, componentVars, formVars>>

StartupFetch(urlParams) ==
    /\ phase = "mount"
    /\ hasRequiredParams(urlParams)
    /\ isLoadingArtifact' = TRUE
    /\ phase' = "fetching"
    /\ UNCHANGED <<locations, stored, lastWrite, selectedCoords, selectedCountry, editingLocation, isGeocoding, pending, harnessVars, reorderArgs, listVars, componentVars, formVars>>

\* isLoadingArtifact after the fetch, had the early return of the success
\* path skipped the reset.
LoadingAfterEarlyReturn(response) == RemoteLoad(response).valid

\* isLoadingArtifact after the fetch: the finally block runs on every path out
\* of the try, the early return of the success path included.
LoadingAfterFetch(response) == FALSE

FetchSettled(response) ==
    /\ phase = "fetching"
    /\ LET remote == RemoteLoad(response)
           r == LocalLoad(locations, stored)
       IN  IF remote.valid
           THEN /\ locations' = remote.list
                /\ stored' = JSONstringify(remote.list)
                /\ lastWrite' = "startup:remote_loaded"
           ELSE /\ locations' = r.locations
                /\ stored' = r.stored
                /\ lastWrite' = r.outcome
    /\ isLoadingArtifact' = LoadingAfterFetch(response)
    /\ phase' = "ready"
    /\ UNCHANGED <<selectedCoords, selectedCountry, editingLocation, isGeocoding, pending, harnessVars, reorderArgs, listVars, componentVars, formVars>>

(***************************************************************************)
(* The handlers of App.  The loading overlay covers the page while the     *)
(* remote GET is in flight, so they run in phase "ready".                  *)
(***************************************************************************)
Ready == phase = "ready" /\ ~isLoadingArtifact

handleMapClick(coords) ==
    /\ Ready
    /\ isGeocoding' = TRUE
    /\ selectedCoords' = coords
    /\ selectedCountry' = Null
    /\ pending' = Append(pending, [coords |-> coords, editing |-> editingLocation # << >>])
    /\ lastWrite' = "none"
    /\ UNCHANGED <<locations, stored, editingLocation, isLoadingArtifact, phase, harnessVars, reorderArgs, listVars, componentVars>>

\* The continuation of handleMapClick once its fetch settles.
GeocodeSettled(i, result) ==
    /\ Ready
    /\ i \in 1..Len(pending)
    /\ LET request == pending[i]
       IN  IF result = "country"
           THEN /\ selectedCountry' = Str(CountryAt(request.coords))
                /\ UNCHANGED selectedCoords
           ELSE /\ selectedCoords' = (IF ~request.editing THEN NoCoords ELSE selectedCoords)
                /\ UNCHANGED selectedCountry
    /\ isGeocoding' = FALSE
    /\ pending' = SubSeq(pending, 1, i - 1) \o SubSeq(pending, i + 1, Len(pending))
    /\ lastWrite' = "none"
    /\ UNCHANGED <<locations, stored, editingLocation, isLoadingArtifact, phase, harnessVars, reorderArgs, listVars, componentVars>>

\* The record the update branch of handleSaveLocation builds.
UpdatedLocation(editing, formData, coords, country) ==
    [editing EXCEPT !.title = Str(formData.title), !.description = Str(formData.description), !.image = Str(formData.image),
                    !.video = (IF formData.video = "" THEN Null ELSE Str(formData.video)),
                    !.audio = (IF formData.audio = "" THEN Null ELSE Str(formData.audio)),
                    !.coordinates = coords, !.country = country,
                    !.questions = Arr(formData.questions), !.block_navigation = Bool(formData.block_navigation)]

\* The record the create branch of handleSaveLocation builds at clock value t.
NewLocation(t, formData, coords, country) ==
    Location(Str(toISOString(t)), Str(formData.title), country, Str(formData.description), Str(formData.image),
             IF formData.video = "" THEN Null ELSE Str(formData.video),
             IF formData.audio = "" THEN Null ELSE Str(formData.audio),
             coords, Arr(formData.questions), Bool(formData.block_navigation))

\* insert: [...prevLocations, newLocation]
insert(prevLocations, newLocation) == Append(prevLocations, newLocation)

\* The guard without its test of selectedCountry.
SubmitRefusedCountryUnchecked(formData) == formData.title = "" \/ formData.description = "" \/ ~selectedCoords.arr

\* The guard of LocationForm.handleSubmit and of handleSaveLocation.
SubmitRefused(formData) == formData.title = "" \/ formData.description = "" \/ ~selectedCoords.arr \/ ~Truthy(selectedCountry)

\* LocationForm.handleSubmit followed by handleSaveLocation; t is what
\* new Date() reads when the record is created.
handleSubmit(formData) ==
    /\ Ready
    /\ IF SubmitRefused(formData)
       THEN /\ lastWrite' = "none"
            /\ UNCHANGED <<locations, stored, selectedCoords, selectedCountry, editingLocation>>
       ELSE /\ IF editingLocation # << >>
               THEN /\ locations' = MapReplaceId(locations, editingLocation[1].id, UpdatedLocation(editingLocation[1], formData, selectedCoords, selectedCountry))
                    /\ lastWrite' = "update"
               ELSE /\ Len(locations) < MaxLocs
                    /\ \E t \in 0..MaxClock : locations' = insert(locations, NewLocation(t, formData, selectedCoords, selectedCountry))
                    /\ lastWrite' = "create"
            /\ stored' = JSONstringify(locations')
            /\ selectedCoords' = NoCoords
            /\ selectedCountry' = Null
            /\ editingLocation' = << >>
    /\ UNCHANGED <<isGeocoding, pending, isLoadingArtifact, phase, harnessVars, reorderArgs, listVars, componentVars>>

\* The editing state handleCancelEdit leaves.
handleCancelEdit == [editingLocation |-> << >>, selectedCoords |-> NoCoords, selectedCountry |-> Null]

CancelEdit ==
    /\ Ready
    /\ editingLocation # << >>
    /\ editingLocation' = handleCancelEdit.editingLocation
    /\ selectedCoords' = handleCancelEdit.selectedCoords
    /\ selectedCountry' = handleCancelEdit.selectedCountry
    /\ lastWrite' = "none"
    /\ UNCHANGED <<locations, stored, isGeocoding, pending, isLoadingArtifact, phase, harnessVars, reorderArgs, listVars, componentVars>>

\* handleDeleteLocation without the call of handleCancelEdit.
EditingKeptAfterDelete(id) == [editingLocation |-> editingLocation, selectedCoords |-> selectedCoords, selectedCountry |-> selectedCountry]

\* The editing state handleDeleteLocation(id) leaves.
EditingAfterDelete(id) ==
    IF editingLocation # << >> /\ editingLocation[1].id = id THEN handleCancelEdit
    ELSE [editingLocation |-> editingLocation, selectedCoords |-> selectedCoords, selectedCountry |-> selectedCountry]

handleDeleteLocation(id) ==
    /\ Ready
    /\ \E i \in 1..Len(locations) : locations[i].id = id
    /\ editingLocation' = EditingAfterDelete(id).editingLocation
    /\ selectedCoords' = EditingAfterDelete(id).selectedCoords
    /\ selectedCountry' = EditingAfterDelete(id).selectedCountry
    /\ locations' = FilterOutId(locations, id)
    /\ stored' = JSONstringify(locations')
    /\ lastWrite' = (IF editingLocation # << >> /\ editingLocation[1].id = id THEN "delete:edited" ELSE "delete:other")
    /\ UNCHANGED <<isGeocoding, pending, isLoadingArtifact, phase, harnessVars, reorderArgs, io, listVars, componentVars, formVars>>

handleStartEdit(i) ==
    /\ Ready
    /\ i \in 1..Len(locations)
    /\ editingLocation' = <<locations[i]>>
    /\ selectedCoords' = locations[i].coordinates
    /\ selectedCountry' = locations[i].country
    /\ lastWrite' = "none"
    /\ UNCHANGED <<locations, stored, isGeocoding, pending, isLoadingArtifact, phase, harnessVars, reorderArgs, listVars, componentVars>>

\* reader.onload of handleImport without the call of updateStoredLocations.
ImportResultUnsaved(mem, item, text, confirmed) ==
    IF ~confirmed THEN [locations |-> mem, stored |-> item, outcome |-> "import:declined", alert |-> ""]
    ELSE LET jsonData == JSONparse(text)
         IN  IF jsonData.threw THEN [locations |-> mem, stored |-> item, outcome |-> "import:json_error", alert |-> "importError_json"]
             ELSE LET validatedLocations == validateLocationsData(jsonData.value)
                  IN  IF validatedLocations.valid
                      THEN [locations |-> validatedLocations.list, stored |-> item, outcome |-> "import:replaced", alert |-> "importSuccess"]
                      ELSE [locations |-> mem, stored |-> item, outcome |-> "import:invalid", alert |-> "importError_validation"]

\* reader.onload of handleImport emptying the collection when validation fails.
ImportResultWipes(mem, item, text, confirmed) ==
    IF ~confirmed THEN [locations |-> mem, stored |-> item, outcome |-> "import:declined", alert |-> ""]
    ELSE LET jsonData == JSONparse(text)
         IN  IF jsonData.threw THEN [locations |-> mem, stored |-> item, outcome |-> "import:json_error", alert |-> "importError_json"]
             ELSE LET validatedLocations == validateLocationsData(jsonData.value)
                  IN  IF validatedLocations.valid
                      THEN [locations |-> validatedLocations.list, stored |-> JSONstringify(validatedLocations.list),
                            outcome |-> "import:replaced", alert |-> "importSuccess"]
                      ELSE [locations |-> << >>, stored |-> JSONstringify(<< >>), outcome |-> "import:invalid", alert |-> "importError_validation"]

\* reader.onload of handleImport adding the imported records to the collection.
ImportResultMerges(mem, item, text, confirmed) ==
    IF ~confirmed THEN [locations |-> mem, stored |-> item, outcome |-> "import:declined", alert |-> ""]
    ELSE LET jsonData == JSONparse(text)
         IN  IF jsonData.threw THEN [locations |-> mem, stored |-> item, outcome |-> "import:json_error", alert |-> "importError_json"]
             ELSE LET validatedLocations == validateLocationsData(jsonData.value)
                  IN  IF validatedLocations.valid
                      THEN [locations |-> mem \o validatedLocations.list, stored |-> JSONstringify(mem \o validatedLocations.list),
                            outcome |-> "import:replaced", alert |-> "importSuccess"]
                      ELSE [locations |-> mem, stored |-> item, outcome |-> "import:invalid", alert |-> "importError_validation"]

\* reader.onload of handleImport: what it leaves in memory and in the store.
ImportResult(mem, item, text, confirmed) ==
    IF ~confirmed THEN [locations |-> mem, stored |-> item, outcome |-> "import:declined", alert |-> ""]
    ELSE LET jsonData == JSONparse(text)
         IN  IF jsonData.threw THEN [locations |-> mem, stored |-> item, outcome |-> "import:json_error", alert |-> "importError_json"]
             ELSE LET validatedLocations == validateLocationsData(jsonData.value)
                  IN  IF validatedLocations.valid
                      THEN [locations |-> validatedLocations.list, stored |-> JSONstringify(validatedLocations.list),
                            outcome |-> "import:replaced", alert |-> "importSuccess"]
                      ELSE [locations |-> mem, stored |-> item, outcome |-> "import:invalid", alert |-> "importError_validation"]

handleImport(text, confirmed) ==
    /\ Ready
    /\ LET r == ImportResult(locations, stored, text, confirmed)
       IN  /\ locations' = r.locations
           /\ stored' = r.stored
           /\ lastWrite' = (IF r.outcome = "import:replaced" THEN "import" ELSE "none")
    /\ UNCHANGED <<selectedCoords, selectedCountry, editingLocation, isGeocoding, pending, isLoadingArtifact, phase, harnessVars, reorderArgs, listVars, componentVars, formVars>>

handleClearAllLocations(confirmed) ==
    /\ Ready
    /\ Len(locations) > 0
    /\ IF confirmed
       THEN /\ locations' = << >>
            /\ stored' = JSONstringify(locations')
            /\ lastWrite' = "clear"
       ELSE /\ lastWrite' = "none"
            /\ UNCHANGED <<locations, stored>>
    /\ UNCHANGED <<selectedCoords, selectedCountry, editingLocation, isGeocoding, pending, isLoadingArtifact, phase, harnessVars, reorderArgs, io, listVars, componentVars, formVars>>

(***************************************************************************)
(* LocationsList: the search filter and drag-and-drop.                     *)
(***************************************************************************)
UpperCase == "ABCDEFGHIJKLMNOPQRSTUVWXYZ"
LowerCase == "abcdefghijklmnopqrstuvwxyz"

RECURSIVE toLowerCase(_)
toLowerCase(str) ==
    IF str = "" THEN ""
    ELSE LET c == SubSeq(str, 1, 1)
             lower == IF \E k \in 1..Len(UpperCase) : SubSeq(UpperCase, k, k) = c
                      THEN LET k == CHOOSE k \in 1..Len(UpperCase) : SubSeq(UpperCase, k, k) = c IN SubSeq(LowerCase, k, k)
                      ELSE c
         IN  lower \o toLowerCase(SubSeq(str, 2, Len(str)))

\* String.prototype.includes
includes(str, part) == \E k \in 0..(Len(str) - Len(part)) : SubSeq(str, k + 1, k + Len(part)) = part

\* The records the list displays.
filteredLocations(list, query) ==
    IF query = "" THEN list
    ELSE SelectSeq(list, LAMBDA location : includes(toLowerCase(location.country.s), toLowerCase(query)))

\* The list with sorting enabled whatever the query is.
isSortingNeverDisabled(query) == FALSE

isSortingDisabled(query) == query # ""

\* What the user may type into the search box.
SearchQueries == {"", "jor", "FR"}

\* A file of which the query "jor" displays the second and third record.
LocJ == FileLoc("j", "Jordan", Amman)
ListFiles == {JsonFile(<<LocA, LocB>>), JsonFile(<<LocB, LocA, LocJ>>)}

\* onChange of the search input, rendered while the search is visible and
\* the collection is not empty.
setSearchQuery(query) ==
    /\ Ready
    /\ isSearchVisible /\ Len(locations) > 0
    /\ searchQuery' = query
    /\ lastWrite' = "none"
    /\ UNCHANGED <<appVars, harnessVars, reorderArgs, isSearchVisible, componentVars, formVars>>

toggleSearch ==
    /\ Ready
    /\ Len(locations) > 0
    /\ searchQuery' = (IF isSearchVisible THEN "" ELSE searchQuery)
    /\ isSearchVisible' = ~isSearchVisible
    /\ lastWrite' = "none"
    /\ UNCHANGED <<appVars, harnessVars, reorderArgs, componentVars, formVars>>

\* The indices handleDragEnd hands to onReorder.
DragIndices(list, activeId, overId) == [oldIndex |-> findIndex(list, activeId), newIndex |-> findIndex(list, overId)]

\* LocationsList.handleDragEnd: the displayed item `active` is dropped on the
\* displayed item `over`.  The drag handles are rendered, and the sortable
\* items enabled, only while sorting is not disabled.
handleDragEnd(active, over) ==
    /\ Ready
    /\ ~isSortingDisabled(searchQuery)
    /\ LET shown == filteredLocations(locations, searchQuery)
       IN  /\ active \in 1..Len(shown)
           /\ over \in 1..Len(shown)
           /\ shown[active].id # shown[over].id
           /\ LET indices == DragIndices(locations, shown[active].id, shown[over].id)
              IN  locations' = handleReorderLocations(locations, indices.oldIndex, indices.newIndex)
    /\ stored' = JSONstringify(locations')
    /\ lastWrite' = "reorder"
    /\ UNCHANGED <<selectedCoords, selectedCountry, editingLocation, isGeocoding, pending, isLoadingArtifact, phase, harnessVars, listVars, componentVars, formVars>>

\* The notice LocationForm.handleSubmit and handleSaveLocation show.
SubmitNotice(formData) == IF SubmitRefused(formData) THEN "formAlert" ELSE ""

\* Outcomes of the remote PUT: an ok status, a non-ok status, the fetch rejects.
SaveOutcomes == {"ok", "http_error", "network_error"}

\* handleSave without the test of response.ok.
SaveResultStatusUnchecked(list, urlParams, result) ==
    IF Len(list) = 0 THEN [requests |-> 0, body |-> NoItem, notice |-> "alert_noSave"]
    ELSE IF ~hasRequiredParams(urlParams) THEN [requests |-> 0, body |-> NoItem, notice |-> "alert_saveMissingParams"]
    ELSE [requests |-> 1, body |-> JSONstringify(list),
          notice |-> IF result # "network_error" THEN "alert_saveSuccess" ELSE "alert_saveError"]

\* handleSave: the requests it issues, the body it sends, the notice it shows.
SaveResult(list, urlParams, result) ==
    IF Len(list) = 0 THEN [requests |-> 0, body |-> NoItem, notice |-> "alert_noSave"]
    ELSE IF ~hasRequiredParams(urlParams) THEN [requests |-> 0, body |-> NoItem, notice |-> "alert_saveMissingParams"]
    ELSE [requests |-> 1, body |-> JSONstringify(list),
          notice |-> IF result = "ok" THEN "alert_saveSuccess" ELSE "alert_saveError"]

\* handleSave reads no state after its await and writes none, so the call
\* and the settling of its PUT are one step; SaveResult says what it sends
\* and shows.
handleSave ==
    /\ Ready
    /\ lastWrite' = "none"
    /\ UNCHANGED <<appVars, harnessVars, reorderArgs, listVars, componentVars, formVars>>

(***************************************************************************)
(* MapSearchControl: the place search box with debounced suggestions.      *)
(* timers holds the window.setTimeout timers that have not fired and were  *)
(* not cleared, each with the query its callback closes over; fetches      *)
(* counts the suggestion requests in flight; suggestions is the number of  *)
(* suggestions held.                                                       *)
(***************************************************************************)
InitMapSearch ==
    [query |-> "", suggestions |-> 0, isFetchingSuggestions |-> FALSE, showSuggestions |-> FALSE,
     highlightedIndex |-> -1, debounceTimeoutRef |-> 0, timers |-> {}, nextTimer |-> 1, fetches |-> 0]

\* What the user may have in the search box, and the name of a suggested place.
QueryInputs == {"", "a", "am", "amm"}
DisplayName == "Amman, Jordan"

\* clearTimeout leaving the timer pending.
clearTimeoutIgnored(timers, id) == timers

\* clearTimeout(id)
clearTimeout(timers, id) == {timer \in timers : timer.id # id}

\* if (debounceTimeoutRef.current) clearTimeout(debounceTimeoutRef.current)
ClearDebounce(ms) == IF ms.debounceTimeoutRef # 0 THEN clearTimeout(ms.timers, ms.debounceTimeoutRef) ELSE ms.timers

SearchFrame == UNCHANGED <<appVars, harnessVars, reorderArgs, listVars, formVars>> /\ lastWrite' = "none"

handleQueryChange(newQuery) ==
    /\ Ready
    /\ newQuery # mapSearch.query
    /\ IF Len(newQuery) < 2
       THEN mapSearch' = [mapSearch EXCEPT !.query = newQuery, !.timers = ClearDebounce(mapSearch),
                                           !.suggestions = 0, !.highlightedIndex = -1,
                                           !.showSuggestions = FALSE, !.isFetchingSuggestions = FALSE]
       ELSE /\ mapSearch.nextTimer <= MaxTimers
            /\ mapSearch' = [mapSearch EXCEPT !.query = newQuery,
                                              !.timers = ClearDebounce(mapSearch) \cup {[id |-> mapSearch.nextTimer, query |-> newQuery]},
                                              !.debounceTimeoutRef = mapSearch.nextTimer,
                                              !.nextTimer = mapSearch.nextTimer + 1,
                                              !.showSuggestions = TRUE, !.isFetchingSuggestions = TRUE]
    /\ SearchFrame

\* The timer's callback runs: fetchSuggestions(newQuery) sends its request.
TimerFires(timer) ==
    /\ Ready
    /\ timer \in mapSearch.timers
    /\ mapSearch' = [mapSearch EXCEPT !.timers = mapSearch.timers \ {timer}, !.fetches = mapSearch.fetches + 1]
    /\ SearchFrame

\* fetchSuggestions after its await: count suggestions came back (none on an error).
SuggestionsSettled(count) ==
    /\ Ready
    /\ mapSearch.fetches > 0
    /\ mapSearch' = [mapSearch EXCEPT !.suggestions = count, !.highlightedIndex = -1,
                                      !.isFetchingSuggestions = FALSE, !.fetches = mapSearch.fetches - 1]
    /\ SearchFrame

\* ArrowDown, or the mouse entering a suggestion.
setHighlightedIndex(index) ==
    /\ Ready
    /\ mapSearch.showSuggestions /\ index < mapSearch.suggestions
    /\ mapSearch' = [mapSearch EXCEPT !.highlightedIndex = index]
    /\ SearchFrame

\* What handleSuggestionClick leaves.
SuggestionClicked(ms) ==
    [ms EXCEPT !.timers = ClearDebounce(ms), !.query = DisplayName, !.showSuggestions = FALSE, !.isFetchingSuggestions = FALSE]

handleSuggestionClick ==
    /\ Ready
    /\ mapSearch.showSuggestions /\ Len(mapSearch.query) > 1
    /\ ~mapSearch.isFetchingSuggestions /\ mapSearch.suggestions > 0
    /\ mapSearch' = SuggestionClicked(mapSearch)
    /\ SearchFrame

\* MapSearchControl.handleSubmit
handleSearchSubmit ==
    /\ Ready
    /\ IF mapSearch.highlightedIndex > -1 /\ mapSearch.highlightedIndex < mapSearch.suggestions
       THEN mapSearch' = SuggestionClicked(mapSearch)
       ELSE mapSearch' = [mapSearch EXCEPT !.timers = ClearDebounce(mapSearch), !.showSuggestions = FALSE]
    /\ SearchFrame

(***************************************************************************)
(* LocationForm: the quiz builder.  form.questions is the questions state, *)
(* one entry per question object: q is the object's value, src says which  *)
(* question of the edited record the object is (0: an object the form      *)
(* made) and opts says which question of the edited record owns the array  *)
(* q.options refers to (0: an array the form made).  form.at is the        *)
(* position in the collection of the record object editingLocation refers  *)
(* to (0: none).  Positions are 1-based here.                              *)
(***************************************************************************)
MaxQuestions == 1
MaxOptions == 2

\* useState<Question[]>([])
InitForm == [questions |-> << >>, at |-> 0]

Entry(q, src, opts) == [q |-> q, src |-> src, opts |-> opts]

\* editingLocation.questions || []
QuestionsOrEmpty(location) == IF location.questions.arr THEN location.questions.items ELSE << >>

\* The sync effect: setQuestions(editingLocation.questions || []) hands the
\* form the record's own array, and with it the record's own question objects;
\* without an edit and without a selection the form is cleared.
SyncedForm(old, editing, coords, at) ==
    IF editing # << >>
    THEN [questions |-> [k \in 1..Len(QuestionsOrEmpty(editing[1])) |-> Entry(QuestionsOrEmpty(editing[1])[k], k, k)], at |-> at]
    ELSE IF coords = NoCoords THEN InitForm
    ELSE [old EXCEPT !.at = 0]

\* The effect runs after a step that changed one of its dependencies.
SyncEffect ==
    form' = IF editingLocation' = editingLocation /\ selectedCoords' = selectedCoords THEN form
            ELSE SyncedForm(form, editingLocation', selectedCoords', form.at)

\* `q_${Date.now()}` at clock value t
QuestionId(t) == "q_" \o ToString(t)

\* The clock values at which a question is added.
QuizClock == {0}

\* What the user can type into a text input of the quiz builder.
Texts == {"x"}

\* The new question handleAddQuestion appends.
AddedQuestion(t) == Question(Str(QuestionId(t)), Str(""), Str("short_answer"), NotArr(Undef), Str(""))

\* The copy handleQuestionChange builds: { ...newQuestions[index], [field]: value }
\* and the resets of a type change.
QuestionChanged(q, field, value) ==
    IF field = "type"
    THEN [q EXCEPT !.type = Str(value),
                   !.answer = (IF value = "true_false" THEN Str("true") ELSE Str("")),
                   !.options = (IF value = "multiple_choice" THEN Arr(<<Str(""), Str("")>>) ELSE NotArr(Undef))]
    ELSE IF field = "text" THEN [q EXCEPT !.text = Str(value)]
    ELSE [q EXCEPT !.answer = Str(value)]

\* The values the controls of a question can hand to handleQuestionChange.
ChangeValues(q, field) ==
    IF field = "type" THEN {type \in QuestionTypes : Str(type) # q.type}
    ELSE IF field = "text" THEN Texts
    ELSE IF q.type = Str("short_answer") THEN Texts
    ELSE IF q.type = Str("true_false") THEN {"true", "false"}
    ELSE IF q.options.arr THEN {q.options.items[o].s : o \in 1..Len(q.options.items)}
    ELSE {}

\* The question object after handleOptionChange wrote to it and to its options array.
OptionChanged(q, oIndex, text) ==
    [q EXCEPT !.answer = (IF q.answer = q.options.items[oIndex] THEN Str(text) ELSE @),
              !.options = Arr([q.options.items EXCEPT ![oIndex] = Str(text)])]

\* question.options.push('')
OptionAdded(q) == [q EXCEPT !.options = Arr(Append(q.options.items, Str("")))]

\* The question object after handleRemoveOption cleared the answer and spliced the array.
OptionRemoved(q, oIndex) ==
    [q EXCEPT !.answer = (IF q.answer = q.options.items[oIndex] THEN Str("") ELSE @),
              !.options = Arr(SubSeq(q.options.items, 1, oIndex - 1) \o SubSeq(q.options.items, oIndex + 1, Len(q.options.items)))]

\* A record after a write through a form entry: the write reaches the record's
\* question when the entry's object is the record's, and the record's options
\* when only the array is shared.
WrittenThrough(location, entry, q) ==
    IF entry.src # 0
    THEN [location EXCEPT !.questions = Arr([@.items EXCEPT ![entry.src] = q])]
    ELSE IF entry.opts # 0
    THEN [location EXCEPT !.questions = Arr([@.items EXCEPT ![entry.opts] = [@ EXCEPT !.options = q.options]])]
    ELSE location

\* The state the three option handlers leave: they write to the objects the
\* shallow copy [...questions] shares, and call setQuestions.
WriteInPlace(qIndex, q) ==
    /\ form' = [form EXCEPT !.questions[qIndex].q = q]
    /\ locations' = IF form.at = 0 THEN locations
                    ELSE [locations EXCEPT ![form.at] = WrittenThrough(@, form.questions[qIndex], q)]
    /\ editingLocation' = IF editingLocation = << >> THEN << >>
                          ELSE <<WrittenThrough(editingLocation[1], form.questions[qIndex], q)>>

\* The fieldset of the quiz builder is enabled.
FormEnabled == Ready /\ selectedCoords # NoCoords

FormFrame == UNCHANGED <<stored, selectedCoords, selectedCountry, isGeocoding, pending, isLoadingArtifact, phase, harnessVars, reorderArgs, listVars, componentVars>> /\ lastWrite' = "none"

handleAddQuestion(t) ==
    /\ FormEnabled
    /\ Len(form.questions) < MaxQuestions
    /\ form' = [form EXCEPT !.questions = Append(@, Entry(AddedQuestion(t), 0, 0))]
    /\ UNCHANGED <<locations, editingLocation>>
    /\ FormFrame

handleRemoveQuestion(index) ==
    /\ FormEnabled
    /\ index \in 1..Len(form.questions)
    /\ form' = [form EXCEPT !.questions = SubSeq(@, 1, index - 1) \o SubSeq(@, index + 1, Len(@))]
    /\ UNCHANGED <<locations, editingLocation>>
    /\ FormFrame

handleQuestionChange(index, field, value) ==
    /\ FormEnabled
    /\ index \in 1..Len(form.questions)
    /\ value \in ChangeValues(form.questions[index].q, field)
    /\ form' = [form EXCEPT !.questions[index] =
                    Entry(QuestionChanged(@.q, field, value), 0, IF field = "type" THEN 0 ELSE @.opts)]
    /\ UNCHANGED <<locations, editingLocation>>
    /\ FormFrame

handleOptionChange(qIndex, oIndex, text) ==
    /\ FormEnabled
    /\ qIndex \in 1..Len(form.questions)
    /\ form.questions[qIndex].q.options.arr
    /\ oIndex \in 1..Len(form.questions[qIndex].q.options.items)
    /\ WriteInPlace(qIndex, OptionChanged(form.questions[qIndex].q, oIndex, text))
    /\ FormFrame

handleAddOption(qIndex) ==
    /\ FormEnabled
    /\ qIndex \in 1..Len(form.questions)
    /\ form.questions[qIndex].q.options.arr
    /\ Len(form.questions[qIndex].q.options.items) < MaxOptions
    /\ WriteInPlace(qIndex, OptionAdded(form.questions[qIndex].q))
    /\ FormFrame

handleRemoveOption(qIndex, oIndex) ==
    /\ FormEnabled
    /\ qIndex \in 1..Len(form.questions)
    /\ form.questions[qIndex].q.options.arr
    /\ oIndex \in 1..Len(form.questions[qIndex].q.options.items)
    /\ Len(form.questions[qIndex].q.options.items) > 1
    /\ WriteInPlace(qIndex, OptionRemoved(form.questions[qIndex].q, oIndex))
    /\ FormFrame

\* handleStartEdit(i) and the sync effect after it: the effect does not run
\* when the record object and the selection are the ones it last saw.
StartEditForm(i) ==
    /\ handleStartEdit(i)
    /\ form' = IF editingLocation # << >> /\ form.at = i /\ selectedCoords' = selectedCoords THEN form
               ELSE SyncedForm(form, editingLocation', selectedCoords', i)

Init ==
    /\ locations = << >>
    /\ stored \in StoredAtOpen
    /\ selectedCoords = NoCoords
    /\ selectedCountry = Null
    /\ editingLocation = << >>
    /\ isGeocoding = FALSE
    /\ pending = << >>
    /\ isLoadingArtifact = FALSE
    /\ phase = "mount"
    /\ lastWrite = "none"
    /\ vIn = NotArr(Undef)
    /\ vOut = Invalid
    /\ rOld = 0
    /\ rNew = 0
    /\ io = NoCall
    /\ searchQuery = ""
    /\ isSearchVisible = FALSE
    /\ mapSearch = InitMapSearch
    /\ form = InitForm

Next ==
    \/ \E urlParams \in URLParamChoices : StartupLocal(urlParams) /\ UNCHANGED io
    \/ \E urlParams \in URLParamChoices : StartupFetch(urlParams) /\ UNCHANGED io
    \/ \E response \in Responses : FetchSettled(response) /\ UNCHANGED io
    \/ \E coords \in MapClicks : Len(pending) < MaxPending /\ handleMapClick(coords) /\ UNCHANGED <<io, form>>
    \/ \E i \in 1..Len(pending), result \in {"country", "no_country", "error"} : GeocodeSettled(i, result) /\ UNCHANGED <<io, form>>
    \/ \E formData \in FormInputs : handleSubmit(formData) /\ UNCHANGED <<io, form>>
    \/ CancelEdit /\ UNCHANGED <<io, form>>
    \/ \E i \in 1..Len(locations) : handleDeleteLocation(locations[i].id)
    \/ \E i \in 1..Len(locations) : handleStartEdit(i) /\ UNCHANGED <<io, form>>
    \/ \E confirmed \in BOOLEAN : \E text \in ImportChoices(confirmed) : handleImport(text, confirmed) /\ UNCHANGED io
    \/ \E confirmed \in BOOLEAN : handleClearAllLocations(confirmed)
    \/ \E active \in 1..Len(locations), over \in 1..Len(locations) : handleDragEnd(active, over) /\ UNCHANGED <<reorderArgs, io>>
    \/ handleSave /\ UNCHANGED io

Spec == Init /\ [][Next]_vars

(***************************************************************************)
(* The same handlers with the call recorder on: every step leaves in io    *)
(* the handler it ran, what it was given, the notice it showed and the     *)
(* number of remote requests it issued.                                    *)
(***************************************************************************)
StartupLocalCall(urlParams) == StartupLocal(urlParams) /\ io' = Call("startup", [urlParams |-> urlParams], "", 0)

StartupFetchCall(urlParams) == StartupFetch(urlParams) /\ io' = Call("startup", [urlParams |-> urlParams], "", 1)

FetchSettledCall(response) == FetchSettled(response) /\ io' = Call("fetchSettled", response, "", 0)

ImportCall(text, confirmed) ==
    /\ handleImport(text, confirmed)
    /\ io' = Call("import", [text |-> text, confirmed |-> confirmed], ImportResult(locations, stored, text, confirmed).alert, 0)

SubmitCall(formData) == handleSubmit(formData) /\ io' = Call("submit", formData, SubmitNotice(formData), 0)

SaveCall(urlParams, result) ==
    /\ handleSave
    /\ io' = Call("save", [urlParams |-> urlParams, result |-> result], SaveResult(locations, urlParams, result).notice,
                  SaveResult(locations, urlParams, result).requests)

\* Startup, import and remote save.
NextCalls ==
    \/ \E urlParams \in URLParamChoices : StartupLocalCall(urlParams)
    \/ \E urlParams \in URLParamChoices : StartupFetchCall(urlParams)
    \/ \E response \in Responses : FetchSettledCall(response)
    \/ \E confirmed \in BOOLEAN, text \in ImportFiles : ImportCall(text, confirmed)
    \/ \E urlParams \in URLParamChoices, result \in SaveOutcomes : SaveCall(urlParams, result)

SpecCalls == Init /\ [][NextCalls]_vars

\* The same with the fetch of startup completing: the request that was issued
\* settles, with a response or an error.
SpecLoad == Init /\ [][NextCalls]_vars /\ WF_vars(\E response \in Responses : FetchSettledCall(response))

\* The form: a page opened without launch parameters, map clicks, edits and
\* submissions.
NextSubmit ==
    \/ \E urlParams \in URLParamChoices : StartupLocalCall(urlParams)
    \/ \E formData \in FormInputs : SubmitCall(formData) /\ UNCHANGED form
    \/ \E coords \in MapClicks : Len(pending) < MaxPending /\ handleMapClick(coords) /\ io' = NoCall /\ UNCHANGED form
    \/ \E i \in 1..Len(pending), result \in {"country", "no_country", "error"} : GeocodeSettled(i, result) /\ io' = NoCall /\ UNCHANGED form
    \/ \E i \in 1..Len(locations) : handleStartEdit(i) /\ io' = NoCall /\ UNCHANGED form
    \/ CancelEdit /\ io' = NoCall /\ UNCHANGED form

SpecSubmit == Init /\ [][NextSubmit]_vars

\* The list: a page opened without launch parameters, imports, the search
\* box and drags of displayed items.
DragEndCall(active, over) ==
    /\ handleDragEnd(active, over)
    /\ LET shown == filteredLocations(locations, searchQuery)
           indices == DragIndices(locations, shown[active].id, shown[over].id)
       IN  /\ rOld' = indices.oldIndex
           /\ rNew' = indices.newIndex
           /\ io' = Call("drag", [active |-> shown[active].id, over |-> shown[over].id], "", 0)

NextList ==
    \/ \E urlParams \in URLParamChoices : StartupLocalCall(urlParams)
    \/ \E text \in ListFiles : ImportCall(text, TRUE)
    \/ \E query \in SearchQueries : setSearchQuery(query) /\ io' = NoCall
    \/ toggleSearch /\ io' = NoCall
    \/ \E active \in 1..Len(locations), over \in 1..Len(locations) : DragEndCall(active, over)

SpecList == Init /\ [][NextList]_vars

\* The place search box.
NextSearch ==
    \/ \E urlParams \in URLParamChoices : StartupLocalCall(urlParams)
    \/ \E newQuery \in QueryInputs : handleQueryChange(newQuery) /\ io' = Call("handleQueryChange", newQuery, "", 0)
    \/ \E timer \in mapSearch.timers : TimerFires(timer) /\ io' = Call("fetchSuggestions", timer.query, "", 1)
    \/ \E count \in {0, 1} : SuggestionsSettled(count) /\ io' = NoCall
    \/ setHighlightedIndex(0) /\ io' = NoCall
    \/ handleSuggestionClick /\ io' = Call("handleSuggestionClick", DisplayName, "", 0)
    \/ handleSearchSubmit /\ io' = Call("handleSubmit", mapSearch.query, "", 0)

SpecSearch == Init /\ [][NextSearch]_vars

\* The quiz builder: a page opened without launch parameters on a stored
\* collection that holds a record with a quiz, edits, map clicks and the
\* form's handlers.
QuizStores == {JsonFile(<<LocB>>)}

InitQuiz ==
    /\ locations = << >>
    /\ stored \in QuizStores
    /\ selectedCoords = NoCoords
    /\ selectedCountry = Null
    /\ editingLocation = << >>
    /\ isGeocoding = FALSE
    /\ pending = << >>
    /\ isLoadingArtifact = FALSE
    /\ phase = "mount"
    /\ lastWrite = "none"
    /\ vIn = NotArr(Undef)
    /\ vOut = Invalid
    /\ rOld = 0
    /\ rNew = 0
    /\ io = NoCall
    /\ searchQuery = ""
    /\ isSearchVisible = FALSE
    /\ mapSearch = InitMapSearch
    /\ form = InitForm

NextForm ==
    \/ \E urlParams \in URLParamChoices : StartupLocalCall(urlParams)
    \/ \E i \in 1..Len(locations) : StartEditForm(i) /\ io' = Call("handleStartEdit", i, "", 0)
    \/ CancelEdit /\ SyncEffect /\ io' = Call("handleCancelEdit", "", "", 0)
    \/ \E coords \in MapClicks : Len(pending) < MaxPending /\ handleMapClick(coords) /\ SyncEffect /\ io' = NoCall
    \/ \E i \in 1..Len(pending), result \in {"country", "no_country", "error"} : GeocodeSettled(i, result) /\ SyncEffect /\ io' = NoCall
    \/ \E t \in QuizClock : handleAddQuestion(t) /\ io' = Call("handleAddQuestion", t, "", 0)
    \/ \E index \in 1..Len(form.questions) : handleRemoveQuestion(index) /\ io' = Call("handleRemoveQuestion", index, "", 0)
    \/ \E index \in 1..Len(form.questions), field \in {"text", "type", "answer"} :
          \E value \in ChangeValues(form.questions[index].q, field) :
             handleQuestionChange(index, field, value) /\ io' = Call("handleQuestionChange", <<index, field, value>>, "", 0)
    \/ \E qIndex \in 1..Len(form.questions), oIndex \in 1..MaxOptions, text \in Texts :
          handleOptionChange(qIndex, oIndex, text) /\ io' = Call("handleOptionChange", <<qIndex, oIndex, text>>, "", 0)
    \/ \E qIndex \in 1..Len(form.questions) : handleAddOption(qIndex) /\ io' = Call("handleAddOption", qIndex, "", 0)
    \/ \E qIndex \in 1..Len(form.questions), oIndex \in 1..MaxOptions :
          handleRemoveOption(qIndex, oIndex) /\ io' = Call("handleRemoveOption", <<qIndex, oIndex>>, "", 0)

SpecForm == InitQuiz /\ [][NextForm]_vars

\* Overlapping map clicks: a click while the request of an earlier click is
\* still in flight, the responses settling in any order.
MaxOverlap == 2

NextGeocode ==
    \/ \E urlParams \in URLParamChoices : StartupLocalCall(urlParams)
    \/ \E coords \in MapClicks : Len(pending) < MaxOverlap /\ handleMapClick(coords) /\ io' = Call("handleMapClick", coords, "", 1) /\ UNCHANGED form
    \/ \E i \in 1..Len(pending), result \in {"country", "no_country", "error"} :
          GeocodeSettled(i, result) /\ io' = Call("geocodeSettled", [request |-> i, result |-> result], "", 0) /\ UNCHANGED form
    \/ \E i \in 1..Len(locations) : handleStartEdit(i) /\ io' = NoCall /\ UNCHANGED form
    \/ CancelEdit /\ io' = NoCall /\ UNCHANGED form

SpecGeocode == Init /\ [][NextGeocode]_vars

(***************************************************************************)
(* validateLocationsData on its own: the value handed to it is built up    *)
(* element by element and field by field, and every step calls it.         *)
(***************************************************************************)
StringFields == {"id", "title", "country", "description", "image"}
MediaFields == {"video", "audio"}
ArrayFields == {"coordinates", "questions"}
Fields == StringFields \cup MediaFields \cup ArrayFields \cup {"block_navigation"}

ShortAnswer == Question(Str("q_2"), Str("Why?"), Str("short_answer"), NotArr(Undef), Str("because"))

CoordinateValues == {NotArr(Null), NotArr(Undef), Arr(<<Num(31)>>), Arr(<<Num(31), Num(35), Num(0)>>), Arr(<<Str("31"), Num(35)>>),
                     Arr(<<Num(31), Str("35")>>), Arr(<<Num(31), Null>>), Arr(<<Infinity, Num(35)>>)}

QuestionsValues == {NotArr(Undef), NotArr(Null), NotArr(Str("none")), Arr(<< >>), Arr(<<ShortAnswer>>), Arr(<<QuizQuestion, ShortAnswer>>), Arr(<<NullQuestion>>),
                    Arr(<<[ShortAnswer EXCEPT !.id = Num(2)]>>), Arr(<<[ShortAnswer EXCEPT !.text = Undef]>>),
                    Arr(<<[ShortAnswer EXCEPT !.type = Str("essay")]>>), Arr(<<[ShortAnswer EXCEPT !.type = Undef]>>),
                    Arr(<<[ShortAnswer EXCEPT !.answer = Null]>>), Arr(<<[ShortAnswer EXCEPT !.answer = Bool(TRUE)]>>),
                    Arr(<<[QuizQuestion EXCEPT !.options = NotArr(Null)]>>), Arr(<<[QuizQuestion EXCEPT !.options = Arr(<<Str("Amman"), Num(1)>>)]>>),
                    Arr(<<[QuizQuestion EXCEPT !.options = Arr(<< >>)]>>), Arr(<<QuizQuestion, [ShortAnswer EXCEPT !.answer = Undef]>>)}

\* The values a step may give to a field of an element.
FieldValues(f) ==
    CASE f \in StringFields -> {Undef, Null, Num(1), Str("")}
      [] f \in MediaFields -> {Undef, Null, Num(1), Str("v"), Bool(FALSE)}
      [] f = "coordinates" -> CoordinateValues
      [] f = "questions" -> QuestionsValues
      [] OTHER -> {Undef, Null, Bool(FALSE), Bool(TRUE), Str("true"), Num(1)}

\* Elements an array under test starts from: a parsed record of a file, and null.
ParsedB == ParseLocation(LocB)
Elements == {ParsedB, NonObject("null")}
RawValues == {Undef, Null, Str("[]"), Num(1), Obj, Bool(TRUE)}

\* The number of fields that no longer hold what the parsed record holds there.
Changed(items) == Cardinality({<<i, f>> \in (1..Len(items)) \X Fields : items[i].kind = "object" /\ items[i][f] # ParsedB[f]})

ValidateRaw(p) ==
    /\ vIn' = NotArr(p)
    /\ vOut' = validateLocationsData(vIn')
    /\ UNCHANGED <<appVars, lastWrite, reorderArgs, io, listVars, componentVars, formVars>>

ValidateEmpty ==
    /\ vIn' = Arr(<< >>)
    /\ vOut' = validateLocationsData(vIn')
    /\ UNCHANGED <<appVars, lastWrite, reorderArgs, io, listVars, componentVars, formVars>>

ValidateAppended(e) ==
    /\ vIn.arr
    /\ Len(vIn.items) < MaxElems
    /\ vIn' = Arr(Append(vIn.items, e))
    /\ vOut' = validateLocationsData(vIn')
    /\ UNCHANGED <<appVars, lastWrite, reorderArgs, io, listVars, componentVars, formVars>>

\* Field f of the element appended last is given the value v.
ValidateWithField(f, v) ==
    /\ vIn.arr
    /\ Len(vIn.items) > 0
    /\ vIn.items[Len(vIn.items)].kind = "object"
    /\ vIn' = Arr([vIn.items EXCEPT ![Len(vIn.items)][f] = v])
    /\ Changed(vIn'.items) <= MaxChanged
    /\ vOut' = validateLocationsData(vIn')
    /\ UNCHANGED <<appVars, lastWrite, reorderArgs, io, listVars, componentVars, formVars>>

InitValidate ==
    /\ locations = << >>
    /\ stored = NoItem
    /\ selectedCoords = NoCoords
    /\ selectedCountry = Null
    /\ editingLocation = << >>
    /\ isGeocoding = FALSE
    /\ pending = << >>
    /\ isLoadingArtifact = FALSE
    /\ phase = "mount"
    /\ lastWrite = "none"
    /\ vIn = NotArr(Undef)
    /\ vOut = validateLocationsData(vIn)
    /\ rOld = 0
    /\ rNew = 0
    /\ io = NoCall
    /\ searchQuery = ""
    /\ isSearchVisible = FALSE
    /\ mapSearch = InitMapSearch
    /\ form = InitForm

NextValidate ==
    \/ \E p \in RawValues : ValidateRaw(p)
    \/ ValidateEmpty
    \/ \E e \in Elements : ValidateAppended(e)
    \/ \E f \in Fields : \E v \in FieldValues(f) : ValidateWithField(f, v)

SpecValidate == InitValidate /\ [][NextValidate]_vars

(***************************************************************************)
(* handleReorderLocations on its own: called with every pair of indices,   *)
(* in range or not, on the collections an import leaves.                   *)
(***************************************************************************)
ParsedFile(id) == ParseLocation(FileLoc(id, "Jordan", Amman))
RA == ParsedFile("A")
RB == ParsedFile("B")
RC == ParsedFile("C")
RD == ParsedFile("D")
ReorderStarts == {<<RA>>, <<RA, RB>>, <<RA, RB, RC>>, <<RA, RB, RC, RD>>}
IndexRange == -1..MaxReorderLen

ReorderCall(oldIndex, newIndex) ==
    /\ Len(handleReorderLocations(locations, oldIndex, newIndex)) <= MaxReorderLen
    /\ locations' = handleReorderLocations(locations, oldIndex, newIndex)
    /\ stored' = JSONstringify(locations')
    /\ lastWrite' = "reorder"
    /\ rOld' = oldIndex
    /\ rNew' = newIndex
    /\ UNCHANGED <<selectedCoords, selectedCountry, editingLocation, isGeocoding, pending, isLoadingArtifact, phase, harnessVars, io, listVars, componentVars, formVars>>

InitReorder ==
    /\ locations \in ReorderStarts
    /\ stored = JSONstringify(locations)
    /\ selectedCoords = NoCoords
    /\ selectedCountry = Null
    /\ editingLocation = << >>
    /\ isGeocoding = FALSE
    /\ pending = << >>
    /\ isLoadingArtifact = FALSE
    /\ phase = "ready"
    /\ lastWrite = "import"
    /\ vIn = NotArr(Undef)
    /\ vOut = Invalid
    /\ rOld = 0
    /\ rNew = 0
    /\ io = NoCall
    /\ searchQuery = ""
    /\ isSearchVisible = FALSE
    /\ mapSearch = InitMapSearch
    /\ form = InitForm

NextReorder == \E oldIndex \in IndexRange, newIndex \in IndexRange : ReorderCall(oldIndex, newIndex)

SpecReorder == InitReorder /\ [][NextReorder]_vars

(***************************************************************************)
(* Properties.                                                             *)
(***************************************************************************)
HasId(list, id) == \E i \in 1..Len(list) : list[i].id = id
UniqueIds(list) == \A i, j \in 1..Len(list) : i # j => list[i].id # list[j].id
RemoveAt(list, k) == SubSeq(list, 1, k - 1) \o SubSeq(list, k + 1, Len(list))

\* C1: validateLocationsData is all-or-nothing.  A value that is not an array,
\* or an array with at least one element that fails a field check, gives null;
\* a non-null result is never shorter than the input: it is the whole input,
\* and it is returned exactly when every element passes.
AllOrNothing ==
    /\ ~vIn.arr => ~vOut.valid
    /\ (vIn.arr /\ \E i \in 1..Len(vIn.items) : ~validLocation(vIn.items[i])) => ~vOut.valid
    /\ vOut.valid => vOut.list = vIn.items
    /\ (vIn.arr /\ \A i \in 1..Len(vIn.items) : validLocation(vIn.items[i])) => vOut = Valid(vIn.items)

\* A two-element array, the first element well-formed and the second not, was rejected whole.
AllOrNothingWitness ==
    /\ vIn.arr /\ Len(vIn.items) = 2
    /\ validLocation(vIn.items[1]) /\ ~validLocation(vIn.items[2])
    /\ vOut = Invalid

IsString(v) == v.ty = "string"
NullOrString(v) == v.ty = "null" \/ v.ty = "string"
Absent(sv) == sv = NotArr(Undef)
QuestionShape(q) ==
    /\ q.kind = "object"
    /\ IsString(q.id) /\ IsString(q.text) /\ IsString(q.answer)
    /\ q.type \in {Str(t) : t \in QuestionTypes}
    /\ (Absent(q.options) \/ (q.options.arr /\ \A k \in 1..Len(q.options.items) : IsString(q.options.items[k])))
LocationShape(e) ==
    /\ \A f \in StringFields : IsString(e[f])
    /\ \A f \in MediaFields : NullOrString(e[f])
    /\ e.coordinates.arr /\ Len(e.coordinates.items) = 2 /\ \A k \in 1..Len(e.coordinates.items) : e.coordinates.items[k].ty = "number"
    /\ (Absent(e.questions) \/ (e.questions.arr /\ \A k \in 1..Len(e.questions.items) : QuestionShape(e.questions.items[k])))
    /\ (e.block_navigation = Undef \/ e.block_navigation.ty = "boolean")

\* C2: the validator accepts an element if and only if id, title, country,
\* description and image are strings, video and audio are null or a string
\* (not undefined), coordinates is an array of exactly two numbers, questions
\* is absent or an array of well-shaped questions, and block_navigation is
\* absent or a boolean; an array is accepted exactly when all its elements are.
ElementAcceptance == vIn.arr => (vOut.valid <=> \A i \in 1..Len(vIn.items) : LocationShape(vIn.items[i]))

\* An element whose only flaw is an undefined video was rejected.
ElementAcceptanceWitness ==
    /\ vIn.arr /\ Len(vIn.items) = 1
    /\ vIn.items[1].video = Undef
    /\ LocationShape([vIn.items[1] EXCEPT !.video = Null])
    /\ vOut = Invalid

\* C3: round trip.  Parsing the serialized form of the in-memory collection
\* and validating it gives the in-memory collection back.
RoundTrip ==
    LET back == JSONparse(JSONstringify(locations))
    IN  ~back.threw /\ validateLocationsData(back.value) = Valid(locations)

MutatingWrites == {"create", "update", "delete:edited", "delete:other", "reorder", "clear", "import", "startup:remote_loaded"}

\* C4: persistence coupling.  Every step of a mutating operation (create,
\* edit-save, delete, reorder, clear, successful import, successful remote
\* load) ends with the stored value equal to the serialized collection.
PersistenceCoupling ==
    [][lastWrite' \in MutatingWrites => stored' = JSONstringify(locations')]_vars

\* An edit-save has just written a non-empty collection and its stored copy.
PersistenceCouplingWitness == lastWrite = "update" /\ Len(locations) > 0 /\ stored = JSONstringify(locations)

\* C5: corrupt-store self-heal.  When the stored value is not parseable JSON,
\* the local startup path ends with an empty collection and the key no
\* longer holds the corrupt value.
CorruptStoreSelfHeal ==
    [][(phase # "ready" /\ phase' = "ready" /\ lastWrite' # "startup:remote_loaded" /\ stored.syntax = "bad")
         => (locations' = << >> /\ stored'.syntax # "bad")]_vars

\* C6: startup load from the local store.  A stored value that parses but
\* fails validation leaves an empty collection and the key removed; one that
\* parses and validates becomes the collection and stays stored as it was;
\* an absent value leaves an empty collection.
StartupFromLocalStore ==
    [][(phase # "ready" /\ phase' = "ready" /\ lastWrite' # "startup:remote_loaded")
         => CASE stored.syntax = "none" -> locations' = << >> /\ stored' = stored
              [] stored.syntax = "bad" -> TRUE
              [] OTHER -> LET checked == validateLocationsData(JSONparse(stored).value)
                          IN  IF checked.valid THEN locations' = checked.list /\ stored' = stored
                              ELSE locations' = << >> /\ stored' = NoItem]_vars

\* Startup found a schema-invalid value, removed the key and left the collection empty.
StartupFromLocalStoreWitness == phase = "ready" /\ lastWrite = "startup:invalid" /\ stored = NoItem /\ locations = << >>

\* C7: uniqueness preserved.  Create, edit-save, delete and reorder take a
\* collection with pairwise distinct ids to one with pairwise distinct ids.
UniquenessPreserved ==
    [][(UniqueIds(locations) /\ lastWrite' \in {"create", "update", "delete:edited", "delete:other", "reorder"})
         => UniqueIds(locations')]_vars

\* C8: every id in the in-memory collection is unique in every reachable state.
IdsUniqueAlways == UniqueIds(locations)

InRange(k, len) == 0 <= k /\ k < len
IsMove(prev, oldIndex, newIndex, result) ==
    /\ Len(result) = Len(prev)
    /\ result[newIndex + 1] = prev[oldIndex + 1]
    /\ RemoveAt(result, newIndex + 1) = RemoveAt(prev, oldIndex + 1)

\* C9: reorder correctness.  With both indices in range, reorder(oldIndex,
\* newIndex) removes the element at oldIndex and puts it at position newIndex
\* of the result, the others keeping their relative order; [A,B,C,D] with
\* reorder(0,2) gives [B,C,A,D].
ReorderCorrect ==
    [][/\ handleReorderLocations(<<RA, RB, RC, RD>>, 0, 2) = <<RB, RC, RA, RD>>
       /\ (InRange(rOld', Len(locations)) /\ InRange(rNew', Len(locations)))
            => IsMove(locations, rOld', rNew', locations')]_vars

\* reorder(0, 2) has just produced [B,C,A,D].
ReorderCorrectWitness == rOld = 0 /\ rNew = 2 /\ locations = <<RB, RC, RA, RD>>

\* C10: delete-during-edit.  A delete that removes the record open for
\* editing clears editingLocation, selectedCoords and selectedCountry in the
\* same step; any other delete leaves the three unchanged.
DeleteDuringEdit ==
    [][lastWrite' \in {"delete:edited", "delete:other"}
         => IF editingLocation # << >> /\ HasId(locations, editingLocation[1].id) /\ ~HasId(locations', editingLocation[1].id)
            THEN editingLocation' = << >> /\ selectedCoords' = NoCoords /\ selectedCountry' = Null
            ELSE UNCHANGED <<editingLocation, selectedCoords, selectedCountry>>]_vars

\* The record open for editing has just been deleted and the editing state is clear.
DeleteDuringEditWitness == lastWrite = "delete:edited" /\ editingLocation = << >> /\ selectedCoords = NoCoords /\ selectedCountry = Null

NotJson(text) == text.syntax = "bad"
FailsValidation(text) ==
    /\ text.syntax = "ok"
    /\ \/ ~text.doc.arr
       \/ \E k \in 1..Len(text.doc.items) : text.doc.items[k].kind # "object" \/ ~LocationShape(ParseLocation(text.doc.items[k]))

ImportedList(text) == JSONparse(text).value.items

\* C12: a successful import is a confirmed wholesale replacement.  An import
\* changes the collection only if the user confirmed; after a confirmed import
\* of a valid file the in-memory collection is the imported list and the
\* stored value is its serialization, with nothing of the previous collection
\* kept; a declined import changes neither.
ConfirmedReplacement ==
    [][io'.op = "import"
         => /\ (locations' # locations \/ stored' # stored) => io'.arg.confirmed
            /\ (io'.arg.confirmed /\ ~NotJson(io'.arg.text) /\ ~FailsValidation(io'.arg.text))
                 => (locations' = ImportedList(io'.arg.text) /\ stored' = JSONstringify(ImportedList(io'.arg.text)))
            /\ ~io'.arg.confirmed => UNCHANGED <<locations, stored>>]_vars

\* A confirmed import of a two-record file has replaced the collection.
ConfirmedReplacementWitness ==
    /\ io.op = "import" /\ io.arg.confirmed /\ io.notice = "importSuccess"
    /\ io.arg.text = JsonFile(<<LocA, LocB>>)
    /\ locations = ImportedList(io.arg.text) /\ Len(locations) = 2
    /\ stored = JSONstringify(locations)

\* C13: submission is refused before any mutation.  Submitting the form with
\* an empty title or description, with no coordinates selected or with no
\* country resolved changes neither the in-memory collection, nor the stored
\* value, nor the selection and editing state.
RefusedBeforeMutation ==
    [][(io'.op = "submit" /\ (io'.arg.title = "" \/ io'.arg.description = "" \/ selectedCoords = NoCoords \/ selectedCountry = Null))
         => UNCHANGED <<locations, stored, selectedCoords, selectedCountry, editingLocation>>]_vars

\* A complete form was submitted while the country of the clicked point was
\* still unresolved: it was refused and the pin is still selected.
RefusedBeforeMutationWitness ==
    /\ io.op = "submit" /\ io.notice = "formAlert"
    /\ io.arg.title # "" /\ io.arg.description # ""
    /\ selectedCoords = Amman /\ selectedCountry = Null

\* C14: a successful create appends exactly one record at the end of the
\* collection, with an id no existing record has, the selected coordinates and
\* the resolved country; every existing record keeps its content and position.
CreateAppendsFresh ==
    [][lastWrite' = "create"
         => /\ Len(locations') = Len(locations) + 1
            /\ SubSeq(locations', 1, Len(locations)) = locations
            /\ ~HasId(locations, locations'[Len(locations')].id)
            /\ locations'[Len(locations')].coordinates = selectedCoords
            /\ locations'[Len(locations')].country = selectedCountry]_vars

\* The record is the edited one with the form's fields, the selected
\* coordinates and the resolved country.
IsEditedRecord(record, editing, formData, coords, country) ==
    /\ record.id = editing.id
    /\ record.coordinates = coords /\ record.country = country
    /\ record.title = Str(formData.title) /\ record.description = Str(formData.description)
    /\ record.image = Str(formData.image)
    /\ record.video = (IF formData.video = "" THEN Null ELSE Str(formData.video))
    /\ record.audio = (IF formData.audio = "" THEN Null ELSE Str(formData.audio))
    /\ record.questions = Arr(formData.questions) /\ record.block_navigation = Bool(formData.block_navigation)

\* The positions at which two lists of one length differ.
ChangedPositions(before, after) == {i \in 1..Len(before) : after[i] # before[i]}

\* C15: edit-save replaces exactly the record whose id is the edited record's
\* id, at the same position and with the same id, with coordinates and country
\* from the map selection and the other fields from the form; all other
\* records are unchanged; if no record has that id the collection is
\* unchanged, and in every case it is persisted.
EditSaveReplacesOne ==
    [][lastWrite' = "update"
         => /\ Len(locations') = Len(locations)
            /\ Cardinality(ChangedPositions(locations, locations')) <= 1
            /\ \A i \in 1..Len(locations) :
                  IF locations[i].id = editingLocation[1].id
                  THEN \E formData \in FormInputs : IsEditedRecord(locations'[i], editingLocation[1], formData, selectedCoords, selectedCountry)
                  ELSE locations'[i] = locations[i]
            /\ ~HasId(locations, editingLocation[1].id) => locations' = locations
            /\ stored' = JSONstringify(locations')]_vars

\* k is the position of the first record of the list with its id.
FirstWithItsId(list, k) == \A j \in 1..(k - 1) : list[j].id # list[k].id

\* C16: delete(id) removes the first record whose id matches and nothing
\* else: the result is the previous collection without that one record, the
\* others in their order; an id that no record has leaves the collection
\* unchanged.
DeleteRemovesFirst ==
    [][/\ FilterOutId(locations, Str("absent")) = locations
       /\ lastWrite' \in {"delete:edited", "delete:other"}
            => \E k \in 1..Len(locations) : FirstWithItsId(locations, k) /\ locations' = RemoveAt(locations, k)]_vars

\* All four launch parameters are present and non-empty.
AllFour(params) == \A k \in {"userId", "token", "artifactId", "baseUrl"} : params[k].ty = "string" /\ params[k].s # ""

\* Startup took the local-store path: no request, no loading indicator, and
\* the page is ready.
WentLocal == io'.requests = 0 /\ phase' = "ready" /\ ~isLoadingArtifact' /\ lastWrite' # "startup:remote_loaded"

RemoteGood(response) == response.kind = "artifact_data" /\ ~NotJson(response.data) /\ ~FailsValidation(response.data)

\* C18: startup with launch parameters makes at most one remote fetch.  When
\* the fetch settles, the remote payload replaces the in-memory collection and
\* the stored value, and the local-store path is skipped, if and only if the
\* response is ok and its artifact_data parses and validates; in every other
\* case (network error, non-ok status, no artifact_data, parse failure,
\* validation failure) the remote step changes neither and the local-store
\* path runs on them; either way the page becomes ready.
RemoteLoadOrFallThrough ==
    [][/\ io'.op = "startup" => (phase = "mount" /\ phase' # "mount" /\ io'.requests <= 1)
       /\ phase # "mount" => (phase' # "mount" /\ io'.op # "startup")
       /\ io'.op = "fetchSettled"
            => /\ phase' = "ready" /\ ~isLoadingArtifact'
               /\ IF RemoteGood(io'.arg)
                  THEN /\ locations' = ImportedList(io'.arg.data)
                       /\ stored' = JSONstringify(ImportedList(io'.arg.data))
                       /\ lastWrite' = "startup:remote_loaded"
                  ELSE /\ locations' = LocalLoad(locations, stored).locations
                       /\ stored' = LocalLoad(locations, stored).stored
                       /\ lastWrite' = LocalLoad(locations, stored).outcome]_vars

\* The remote payload failed validation and startup loaded the stored record.
RemoteLoadOrFallThroughWitness ==
    /\ io.op = "fetchSettled" /\ io.arg = Response("artifact_data", JsonFile(<<LocNoCoordinates>>))
    /\ phase = "ready" /\ lastWrite = "startup:loaded"
    /\ locations = ImportedList(JsonFile(<<LocA>>)) /\ stored = JsonFile(<<LocA>>)

\* This step settled the reverse-geocoding request pending[i].
Settles(i) == i \in 1..Len(pending) /\ pending' = RemoveAt(pending, i)

\* C19: stale reverse-geocoding responses are not applied.  A response whose
\* coordinates are no longer the current selection (a later click, a save, a
\* cancel or a started edit came in between) changes neither selectedCoords
\* nor selectedCountry.
StaleResponseIgnored ==
    [][\A i \in 1..Len(pending) :
          (Settles(i) /\ selectedCoords # pending[i].coords) => UNCHANGED <<selectedCoords, selectedCountry>>]_vars

\* This step settled pending[i] without a country: the request failed or
\* resolved to no country.
SettlesWithoutCountry(i) == Settles(i) /\ selectedCountry' # Str(CountryAt(pending[i].coords))

\* C20: when a reverse-geocoding request fails or resolves without a country,
\* selectedCoords is cleared if and only if no edit is in progress when the
\* failure is handled; with an edit in progress, also one started after the
\* map click, the selected coordinates are kept.
FailureClearsUnlessEditing ==
    [][\A i \in 1..Len(pending) :
          SettlesWithoutCountry(i) => selectedCoords' = (IF editingLocation = << >> THEN NoCoords ELSE selectedCoords)]_vars

\* C21: remote save never changes the in-memory collection or the stored
\* value; one invocation sends at most one PUT, and none when the collection
\* is empty; it reports success only when a PUT was sent and answered with a
\* success status, and reports failure on a non-success status or a network
\* error.
SaveIsReadOnly ==
    [][io'.op = "save"
         => /\ UNCHANGED <<locations, stored>>
            /\ io'.requests <= 1
            /\ Len(locations) = 0 => io'.requests = 0
            /\ io'.notice = "alert_saveSuccess" => (io'.requests = 1 /\ io'.arg.result = "ok")
            /\ (io'.requests = 1 /\ io'.arg.result # "ok") => io'.notice = "alert_saveError"]_vars

\* A PUT of a non-empty collection was answered with a non-success status
\* and the failure notice was shown.
SaveIsReadOnlyWitness ==
    /\ io.op = "save" /\ io.requests = 1 /\ io.arg.result = "http_error"
    /\ io.notice = "alert_saveError"
    /\ Len(locations) > 0 /\ stored = JSONstringify(locations)

\* C22: reorder acts on the authoritative collection by identity.  The
\* indices handed to reorder are positions, in the full collection, of records
\* with the dragged id and with the id dropped onto, and no reorder is issued
\* while a search filter is active.
ReorderByIdentity ==
    [][io'.op = "drag"
         => /\ searchQuery = ""
            /\ InRange(rOld', Len(locations)) /\ InRange(rNew', Len(locations))
            /\ locations[rOld' + 1].id = io'.arg.active
            /\ locations[rNew' + 1].id = io'.arg.over
            /\ locations' = handleReorderLocations(locations, rOld', rNew')]_vars

\* With the search box open and empty, the second of two records was dragged
\* onto the first.
ReorderByIdentityWitness ==
    /\ io.op = "drag" /\ rOld = 1 /\ rNew = 0
    /\ isSearchVisible /\ searchQuery = ""
    /\ locations = ImportedList(JsonFile(<<LocB, LocA>>))

\* C23: everything the application writes under the 'locations' key is
\* schema-valid.  In every state whose stored value was written by the last
\* step, the stored value parses as JSON and passes validateLocationsData.
StoredIsSchemaValid ==
    lastWrite \in MutatingWrites
        => (~JSONparse(stored).threw /\ validateLocationsData(JSONparse(stored).value).valid)

\* C24: place-search suggestions are debounced.  At most one timer is pending
\* at any time; every change of the query cancels the timers that were
\* pending; a suggestion request is sent only by a timer that was pending, for
\* the query the box still holds, of at least 2 characters; a query shorter
\* than 2 characters, a suggestion click and a form submit leave no timer
\* pending and send no suggestion request.
SuggestionsDebounced ==
    [][/\ Cardinality(mapSearch'.timers) <= 1
       /\ io'.op = "handleQueryChange" => mapSearch'.timers \cap mapSearch.timers = {}
       /\ mapSearch'.fetches > mapSearch.fetches
            => /\ io'.op = "fetchSuggestions"
               /\ [id |-> mapSearch.debounceTimeoutRef, query |-> mapSearch.query] \in mapSearch.timers
               /\ io'.arg = mapSearch.query /\ Len(mapSearch.query) >= 2
       /\ ((io'.op = "handleQueryChange" /\ Len(io'.arg) < 2) \/ io'.op \in {"handleSuggestionClick", "handleSubmit"})
            => (mapSearch'.timers = {} /\ mapSearch'.fetches = mapSearch.fetches)]_vars

\* The query was changed twice within the debounce interval and one timer,
\* the one of the second change, is pending.
SuggestionsDebouncedWitness ==
    /\ io.op = "handleQueryChange" /\ mapSearch.query = "amm"
    /\ mapSearch.timers = {[id |-> 2, query |-> "amm"]}
    /\ mapSearch.fetches = 0


\* The answer of a question of the form is one its type allows.
AnswerAllowed(q) ==
    /\ q.type = Str("multiple_choice") => (q.options.arr /\ \E o \in 1..Len(q.options.items) : q.answer = q.options.items[o])
    /\ q.type = Str("true_false") => q.answer \in {Str("true"), Str("false")}

\* C25: the quiz-builder invariant.  After any sequence of form operations
\* (adding and removing questions, changing a type, changing or marking an
\* answer, adding, changing and removing options), the answer of every
\* multiple_choice question of the form equals one of its options and the
\* answer of every true_false question is "true" or "false".
QuizBuilderInvariant == \A k \in 1..Len(form.questions) : AnswerAllowed(form.questions[k].q)


\* The handlers of the quiz builder.
FormOps == {"handleAddQuestion", "handleRemoveQuestion", "handleQuestionChange", "handleOptionChange", "handleAddOption", "handleRemoveOption"}

\* C26: editing is isolated from the collection until save.  No operation of
\* the form, the change, addition or removal of a quiz option of an existing
\* question included, modifies a record of the in-memory collection, so that
\* a cancelled edit leaves the collection as it was when the edit started.
EditIsolated == [][io'.op \in FormOps => locations' = locations]_vars


\* C27: no dangling edit.  In every reachable state in which an edit is open
\* (editingLocation is not null) the in-memory collection holds a record
\* with the id of the edited record, also after an import, a clear-all or a
\* load replaced or emptied the collection while the edit was open.
NoDanglingEdit == editingLocation # << >> => HasId(locations, editingLocation[1].id)


\* C28: the remote-load indicator always clears.  When startup has set
\* isLoadingArtifact, it becomes false again once the fetch completes, on
\* every outcome (a payload that loads, a non-ok status, no artifact_data, an
\* unparsable or invalid payload, a network error); and it is true only on a
\* page opened with all four launch parameters.
LoadingClears ==
    /\ isLoadingArtifact ~> ~isLoadingArtifact
    /\ [](isLoadingArtifact => (io.op = "startup" /\ AllFour(io.arg.urlParams)))
    /\ [][io'.op = "fetchSettled" => (isLoadingArtifact /\ ~isLoadingArtifact')]_vars

\* The fetch of startup failed with a network error and the indicator is off.
LoadingClearsWitness ==
    /\ io.op = "fetchSettled" /\ io.arg.kind = "network_error"
    /\ phase = "ready" /\ ~isLoadingArtifact


\* C29: the geocoding indicator matches the requests in flight.  isGeocoding
\* is true in every state in which a reverse-geocoding request is in flight
\* and false in every state in which none is, also when map clicks overlap
\* and their responses complete in any order.
GeocodingMatchesInFlight == isGeocoding <=> Len(pending) > 0


\* The number of entries of list equal to x.
Count(list, x) == Cardinality({i \in 1..Len(list) : list[i] = x})

\* result holds the entries of prev, each as often as prev does.
IsPermutation(prev, result) ==
    /\ Len(result) = Len(prev)
    /\ \A i \in 1..Len(result) : Count(result, result[i]) = Count(prev, result[i])

\* C30: reorder never loses or invents records.  For every pair of integers
\* (oldIndex, newIndex), in range or not (the -1 of a failed id lookup, an
\* index past the end), the collection after the reorder is a permutation of
\* the collection before it: same length, same records, no undefined entry.
ReorderIsPermutation == [][lastWrite' = "reorder" => IsPermutation(locations, locations')]_vars

====
